---- MODULE Spec2Model ----
(***************************************************************************)
(* TestPilot: the bounded crawler (WebsiteCrawler, src/analyze-website.js) *)
(* and the decision/action loop of the testing agent                       *)
(* (IntelligentTestingAgent, src/handler/browser/index.js).                *)
(***************************************************************************)
EXTENDS Integers, Sequences, FiniteSets, TLC

----------------------------------------------------------------------------
(* Bounds of the exploration *)

\* largest maxPages option given to the WebsiteCrawler constructor
MaxPagesBound == 3
\* largest number of <a href> elements a page exposes
MaxLinks == 3
\* largest number of ActionRecords the oracle's decisions may produce
MaxRecords == 2

----------------------------------------------------------------------------
(* URLs *)

\* the URLs of the explored site, and one URL of another host
SiteUrls == {"s", "a", "b", "c"}
OtherUrls == {"x"}
Urls == SiteUrls \cup OtherUrls

\* new URL(u).hostname
hostname(u) == IF u \in SiteUrls THEN "site" ELSE "other"

Range(seq) == {seq[i] : i \in 1..Len(seq)}

SeqsUpTo(S, n) == UNION {[1..k -> S] : k \in 0..n}

NoDuplicates(seq) == \A i, j \in 1..Len(seq) : i /= j => seq[i] /= seq[j]

----------------------------------------------------------------------------
(* State of the IntelligentTestingAgent *)

VARIABLES
    agentPc,         \* position inside initialize / testWebsite
    browser,         \* this.browser
    currentUrl,      \* this.currentUrl
    visitedPages,    \* this.memory.visitedPages
    testHistory,     \* this.memory.testHistory
    steps,           \* the local steps of testWebsite
    decision,        \* the local decision of testWebsite
    result,          \* the local result of testWebsite (what act returned)
    completed,       \* the loop was left by the break of the `complete` branch
    maxStepsLogged,  \* the post-loop branch steps >= maxSteps was taken
    fatalAt,         \* where the error caught by testWebsite was raised
    thrownError,     \* the error testWebsite throws to its caller
    revisited,       \* history: page.goto was called on a URL of visitedPages
    thinkOutcome,    \* history: how the last call of think ended (try block or catch)
    report,          \* the report built by generateReport
    pageOps          \* history: the page operations the last step issued, in order

agentVars == <<agentPc, browser, currentUrl, visitedPages, testHistory, steps, decision,
               result, completed, maxStepsLogged, fatalAt, thrownError, revisited,
               thinkOutcome, report, pageOps>>

----------------------------------------------------------------------------
(* State of a single call of one of the resolver and extraction functions *)

VARIABLES
    callArgs,        \* the arguments and the outcomes of the browser operations
    callResult,      \* what the call did and returned
    callDone         \* the call has returned

callVars == <<callArgs, callResult, callDone>>

\* no call is being examined
CallIdle == callArgs = <<>> /\ callResult = <<>> /\ callDone = FALSE

VARIABLES
    sessions,        \* the instances constructed: the containers their fields refer to
    heap,            \* the contents of every container object
    actor            \* the instance whose step came last

sessVars == <<sessions, heap, actor>>

VARIABLES
    flightPc,        \* the await of testWebsite the session is at, or its end
    flightStep,      \* the local variable steps of testWebsite
    flightDecision,  \* the decision the last think call settled with
    tasks,           \* the calls started and not yet settled, each with the
                     \* operations it has still to issue
    awaited,         \* the call testWebsite is suspended on
    flightDone,      \* history: what the current step has completed
    flightFailed     \* a failed record was appended to testHistory

flightVars == <<flightPc, flightStep, flightDecision, tasks, awaited, flightDone,
                flightFailed>>

VARIABLES
    autoPc,          \* position inside the current browserAutomation call
    autoCall,        \* its testId, keepBrowserOpen and the browser it launched
    autoCalls,       \* the number of browserAutomation calls made
    browsers,        \* the process state of every browser launched
    activeBrowsers,  \* global._activeBrowsers
    autoResults      \* history: the results the calls returned, with their browser

autoVars == <<autoPc, autoCall, autoCalls, browsers, activeBrowsers, autoResults>>

----------------------------------------------------------------------------
(* WebsiteCrawler *)

VARIABLES
    maxPages,        \* this.maxPages
    visitedUrls,     \* this.visitedUrls (Set)
    foundUrls,       \* this.foundUrls (Set, kept in insertion order)
    results,         \* this.results: URLs of the pages analysed successfully
    crawlPc,         \* position inside crawlWebsite
    crawlUrl,        \* the local currentUrl of crawlWebsite
    links,           \* the local links of analyzePage
    linkIdx,         \* position of links.forEach
    crawlBrowser,    \* the browser launched by setupBrowser
    visitOrder,      \* history: the URLs passed to analyzePage, in call order
    admitOrder,      \* history: the URLs inserted into foundUrls, in insertion order
    capRejected,     \* history: links of the first page skipped because foundUrls was full
    failedUrls,      \* history: the URLs whose analyzePage caught an error
    totalPages,      \* summary.totalPages of the report built (NoTotal before)
    foreignSeen      \* history: a page analysed exposed a link to another hostname

crawlVars == <<maxPages, visitedUrls, foundUrls, results, crawlPc, crawlUrl, links,
               linkIdx, crawlBrowser, visitOrder, admitOrder, capRejected,
               failedUrls, totalPages, foreignSeen>>

NoUrl == "none"

\* no report has been built
NoTotal == -1

\* Set.prototype.add on an insertion-ordered set
SetAdd(seq, x) == IF x \in Range(seq) THEN seq ELSE Append(seq, x)

\* variant of extractLinks without the hostname test
extractLinksAnyHost(hrefs, baseUrl) == hrefs

\* extractLinks: the hrefs of the page that have the hostname of baseUrl
extractLinks(hrefs, baseUrl) ==
    SelectSeq(hrefs, LAMBDA h : hostname(h) = hostname(baseUrl))

\* variants of the forEach condition: without the visited test, with an
\* off-by-one capacity test, without the capacity test
AdmitsLinkNoVisitedTest(link) == Len(foundUrls) < maxPages
AdmitsLinkOffByOne(link) == link \notin visitedUrls /\ Len(foundUrls) <= maxPages
AdmitsLinkNoCap(link) == link \notin visitedUrls

\* the condition of the forEach body of analyzePage
AdmitsLink(link) == link \notin visitedUrls /\ Len(foundUrls) < maxPages

\* variant of the loop condition without the page cap
CrawlLoopGuardNoCap == Len(foundUrls) > 0

\* the condition of the while loop of crawlWebsite
CrawlLoopGuard == Len(foundUrls) > 0 /\ Cardinality(visitedUrls) < maxPages

\* variant taking the latest entry instead of the earliest
NextFoundLast(found) == found[Len(found)]

\* foundUrls.values().next().value
NextFound(found) == Head(found)

\* foundUrls.delete(currentUrl)
SetDelete(seq, x) == SelectSeq(seq, LAMBDA y : y /= x)

\* constructor
CrawlerInit ==
    /\ maxPages \in 1..MaxPagesBound
    /\ visitedUrls = {}
    /\ foundUrls = <<>>
    /\ results = <<>>
    /\ crawlPc = "new"
    /\ crawlUrl = NoUrl
    /\ links = <<>>
    /\ linkIdx = 1
    /\ crawlBrowser = "none"
    /\ visitOrder = <<>>
    /\ admitOrder = <<>>
    /\ capRejected = {}
    /\ failedUrls = {}
    /\ totalPages = NoTotal
    /\ foreignSeen = FALSE

\* crawlWebsite up to the loop: setupBrowser, newPage, foundUrls.add(startUrl)
CrawlWebsite(startUrl, launched) ==
    /\ crawlPc = "new"
    /\ IF launched
       THEN /\ crawlBrowser' = "open"
            /\ foundUrls' = SetAdd(foundUrls, startUrl)
            /\ admitOrder' = IF startUrl \in Range(foundUrls) THEN admitOrder
                             ELSE Append(admitOrder, startUrl)
            /\ crawlPc' = "loop"
       ELSE /\ crawlPc' = "thrown"
            /\ UNCHANGED <<crawlBrowser, foundUrls, admitOrder>>
    /\ UNCHANGED <<maxPages, visitedUrls, results, crawlUrl, links, linkIdx,
                   visitOrder, capRejected,
                   failedUrls, totalPages, foreignSeen, agentVars, callVars, sessVars, flightVars, autoVars>>

\* loop head: take the first entry of foundUrls and delete it
PopUrl ==
    /\ crawlPc = "loop"
    /\ CrawlLoopGuard
    /\ crawlUrl' = NextFound(foundUrls)
    /\ foundUrls' = SetDelete(foundUrls, NextFound(foundUrls))
    /\ crawlPc' = "popped"
    /\ UNCHANGED <<maxPages, visitedUrls, results, links, linkIdx, crawlBrowser,
                   visitOrder, admitOrder, capRejected,
                   failedUrls, totalPages, foreignSeen, agentVars, callVars, sessVars, flightVars, autoVars>>

\* variant of the visited branch of the loop body that forgets to add the URL
MarkVisitedNoAdd ==
    /\ crawlPc = "popped"
    /\ visitOrder' = Append(visitOrder, crawlUrl)
    /\ crawlPc' = "analyze"
    /\ UNCHANGED <<maxPages, visitedUrls, foundUrls, results, crawlUrl, links, linkIdx,
                   crawlBrowser, admitOrder, capRejected,
                   failedUrls, totalPages, foreignSeen, agentVars, callVars, sessVars, flightVars, autoVars>>

\* if (!visitedUrls.has(currentUrl)) visitedUrls.add(currentUrl), then analyzePage
MarkVisited ==
    /\ crawlPc = "popped"
    /\ IF crawlUrl \notin visitedUrls
       THEN /\ visitedUrls' = visitedUrls \cup {crawlUrl}
            /\ visitOrder' = Append(visitOrder, crawlUrl)
            /\ crawlPc' = "analyze"
       ELSE /\ crawlPc' = "loop"
            /\ UNCHANGED <<visitedUrls, visitOrder>>
    /\ UNCHANGED <<maxPages, foundUrls, results, crawlUrl, links, linkIdx,
                   crawlBrowser, admitOrder, capRejected,
                   failedUrls, totalPages, foreignSeen, agentVars, callVars, sessVars, flightVars, autoVars>>

\* analyzePage up to extractLinks; any failure before it is caught and
\* analyzePage returns an error object
AnalyzePage(ok, hrefs) ==
    /\ crawlPc = "analyze"
    /\ foreignSeen' = (foreignSeen \/ (ok /\ \E k \in 1..Len(hrefs) :
                                            hostname(hrefs[k]) /= hostname(crawlUrl)))
    /\ IF ok
       THEN /\ links' = extractLinks(hrefs, crawlUrl)
            /\ linkIdx' = 1
            /\ crawlPc' = "links"
            /\ UNCHANGED failedUrls
       ELSE /\ crawlPc' = "delay"
            /\ failedUrls' = failedUrls \cup {crawlUrl}
            /\ UNCHANGED <<links, linkIdx>>
    /\ UNCHANGED <<maxPages, visitedUrls, foundUrls, results, crawlUrl, crawlBrowser,
                   visitOrder, admitOrder, capRejected,
                   totalPages, agentVars, callVars, sessVars, flightVars, autoVars>>

\* one iteration of links.forEach
AdmitLink ==
    /\ crawlPc = "links"
    /\ linkIdx <= Len(links)
    /\ LET link == links[linkIdx] IN
       IF AdmitsLink(link)
       THEN /\ foundUrls' = SetAdd(foundUrls, link)
            /\ admitOrder' = IF link \in Range(foundUrls) THEN admitOrder
                             ELSE Append(admitOrder, link)
            /\ UNCHANGED capRejected
       ELSE /\ capRejected' = IF /\ Len(visitOrder) = 1
                                 /\ link \notin visitedUrls
                                 /\ link \notin Range(foundUrls)
                              THEN capRejected \cup {link} ELSE capRejected
            /\ UNCHANGED <<foundUrls, admitOrder>>
    /\ linkIdx' = linkIdx + 1
    /\ UNCHANGED <<maxPages, visitedUrls, results, crawlPc, crawlUrl, links,
                   crawlBrowser, visitOrder,
                   failedUrls, totalPages, foreignSeen, agentVars, callVars, sessVars, flightVars, autoVars>>

\* the rest of analyzePage: results.push(result)
FinishAnalyze ==
    /\ crawlPc = "links"
    /\ linkIdx > Len(links)
    /\ results' = Append(results, crawlUrl)
    /\ links' = <<>>
    /\ linkIdx' = 1
    /\ crawlPc' = "delay"
    /\ UNCHANGED <<maxPages, visitedUrls, foundUrls, crawlUrl, crawlBrowser,
                   visitOrder, admitOrder, capRejected,
                   failedUrls, totalPages, foreignSeen, agentVars, callVars, sessVars, flightVars, autoVars>>

\* page.waitForTimeout(this.delay) at the end of the loop body
CrawlDelay(ok) ==
    /\ crawlPc = "delay"
    /\ IF ok
       THEN /\ crawlPc' = "loop"
            /\ UNCHANGED crawlBrowser
       ELSE /\ crawlPc' = "thrown"
            /\ crawlBrowser' = "closed"
    /\ UNCHANGED <<maxPages, visitedUrls, foundUrls, results, crawlUrl, links,
                   linkIdx, visitOrder, admitOrder, capRejected,
                   failedUrls, totalPages, foreignSeen, agentVars, callVars, sessVars, flightVars, autoVars>>

\* variant of the summary that counts the pages visited
generateReportTotalPagesVisited(pages) == Cardinality(visitedUrls)

\* generateReport: summary.totalPages = this.results.length
generateReportTotalPages(pages) == Len(pages)

\* loop exit: generateReport, browser.close, return (or catch, close, throw)
CrawlFinish(ok) ==
    /\ crawlPc = "loop"
    /\ ~CrawlLoopGuard
    /\ crawlPc' = IF ok THEN "returned" ELSE "thrown"
    /\ totalPages' = IF ok THEN generateReportTotalPages(results) ELSE totalPages
    /\ crawlBrowser' = "closed"
    /\ UNCHANGED <<maxPages, visitedUrls, foundUrls, results, crawlUrl, links,
                   linkIdx, visitOrder, admitOrder, capRejected,
                   failedUrls, foreignSeen, agentVars, callVars, sessVars, flightVars, autoVars>>

CrawlerNext ==
    \/ \E startUrl \in Urls, launched \in BOOLEAN : CrawlWebsite(startUrl, launched)
    \/ PopUrl
    \/ MarkVisited
    \/ \E ok \in BOOLEAN, hrefs \in SeqsUpTo(Urls, MaxLinks) : AnalyzePage(ok, hrefs)
    \/ AdmitLink
    \/ FinishAnalyze
    \/ \E ok \in BOOLEAN : CrawlDelay(ok)
    \/ \E ok \in BOOLEAN : CrawlFinish(ok)

----------------------------------------------------------------------------
(* IntelligentTestingAgent *)

\* const maxSteps = 15
maxSteps == 15

\* the URLs the agent is pointed at
AgentUrls == {"s", "a"}

Null == "null"

\* the action kinds of the decision schema
ActionKinds == {"navigate", "click_element", "fill_form", "analyze", "complete"}

\* decisions the oracle can send: the five kinds and a value outside them
Decisions ==
    {[action |-> "navigate", target_text |-> t, target_href |-> h,
      target_element |-> Null, fill_data |-> Null, confidence |-> "high"] :
        t \in {Null, "Sign Up"}, h \in AgentUrls \cup {Null}}
    \cup
    {[action |-> "click_element", target_text |-> t, target_href |-> h,
      target_element |-> e, fill_data |-> Null, confidence |-> "high"] :
        t \in {Null, "Sign Up"}, h \in AgentUrls \cup {Null}, e \in {Null, "el"}}
    \cup
    {[action |-> "fill_form", target_text |-> Null, target_href |-> Null,
      target_element |-> Null, fill_data |-> f, confidence |-> "high"] :
        f \in {Null, "data"}}
    \cup
    {[action |-> a, target_text |-> Null, target_href |-> Null,
      target_element |-> Null, fill_data |-> Null, confidence |-> c] :
        a \in {"analyze", "complete", "bogus"}, c \in {"high", "low"}}

\* the decision think returns from its catch block
DefaultDecision ==
    [action |-> "analyze", target_text |-> Null, target_href |-> Null,
     target_element |-> Null, fill_data |-> Null, confidence |-> "low"]

NoDecision ==
    [action |-> Null, target_text |-> Null, target_href |-> Null,
     target_element |-> Null, fill_data |-> Null, confidence |-> Null]

\* what the oracle request yields: a failed request, or a message content:
\* text that is no JSON, the JSON text null, or the JSON text of an object;
\* the text comes bare, wrapped in a ```json fence, or in a fence that follows
\* some prose
OracleReplies ==
    {[kind |-> "request_failed", fence |-> "none", json |-> NoDecision]}
    \cup {[kind |-> k, fence |-> f, json |-> NoDecision] :
            k \in {"not_json", "json_null"}, f \in {"none", "both", "prose_before"}}
    \cup {[kind |-> "json", fence |-> f, json |-> d] :
            d \in Decisions, f \in {"none", "both", "prose_before"}}

\* cleanOpenAIResponse: removes a fence marker at the very start and one at
\* the very end of the text; a fence that follows prose keeps its opening
\* marker
cleanOpenAIResponse(reply) ==
    IF reply.fence = "both" THEN [reply EXCEPT !.fence = "none"] ELSE reply

\* JSON.parse accepts the text
JsonParses(text) == text.fence = "none" /\ text.kind \in {"json", "json_null"}

\* the try block of think runs to its return: the request succeeded, the
\* cleaned text parsed, and decision.reasoning could be read (not on null)
ThinkTrySucceeds(reply) ==
    /\ reply.kind /= "request_failed"
    /\ JsonParses(cleanOpenAIResponse(reply))
    /\ cleanOpenAIResponse(reply).kind = "json"

\* variant of think without the catch block's default
thinkNoDefault(reply) == reply.json

\* think: the parsed reply, or the default decision when the request,
\* JSON.parse or the logging of the decision throws
think(reply) ==
    IF ThinkTrySucceeds(reply) THEN cleanOpenAIResponse(reply).json ELSE DefaultDecision

\* which way think ended for the reply
ThinkOutcomeOf(reply) ==
    IF ThinkTrySucceeds(reply) THEN "ok"
    ELSE IF reply.kind = "request_failed" THEN "request_error"
    ELSE "parse_error"

\* the descriptors htmlData.interactiveElements.find can return
\* (id, name, type present or not), NoElement for no match
NoElement == [found |-> FALSE, id |-> FALSE, name |-> FALSE, type |-> FALSE]

FoundElements ==
    {NoElement}
    \cup {[found |-> TRUE, id |-> i, name |-> n, type |-> t] : i, n, t \in BOOLEAN}

\* new URL(href) succeeds: href is an absolute URL (not a path like /about)
UrlParses(href) == href \in Urls

\* clickElementByDecision: the strategies pushed, in order
ClickStrategies(d, el) ==
    (IF d.target_text /= Null THEN <<"exact_text", "partial_text">> ELSE <<>>)
    \o (IF d.target_href /= Null
        THEN <<"exact_href">> \o (IF UrlParses(d.target_href) THEN <<"path_href">> ELSE <<>>)
        ELSE <<>>)
    \o (IF d.target_element /= Null /\ el.found
        THEN (IF el.id THEN <<"element_id">> ELSE <<>>)
             \o (IF el.name THEN <<"element_name">> ELSE <<>>)
             \o (IF el.type THEN <<"element_type">> ELSE <<>>)
        ELSE <<>>)

\* variant of the strategy loop that runs every strategy
TryStrategiesNoStop(strategies, succeed) == strategies

\* for (const strategy of strategies) try { await strategy(); return } catch
\* { continue }: the strategies run, given the set of those whose click
\* would succeed
RECURSIVE TryStrategies(_, _)
TryStrategies(strategies, succeed) ==
    IF strategies = <<>> THEN <<>>
    ELSE IF Head(strategies) \in succeed THEN <<Head(strategies)>>
    ELSE <<Head(strategies)>> \o TryStrategies(Tail(strategies), succeed)

\* variant of clickElementByDecision without the fallback navigation
clickElementByDecisionNoFallback(d, el, succeed, gotoOk) ==
    LET tried == TryStrategies(ClickStrategies(d, el), succeed)
        clicked == tried /= <<>> /\ tried[Len(tried)] \in succeed
    IN  [attempts |-> tried, outcome |-> IF clicked THEN "clicked" ELSE "thrown"]

\* clickElementByDecision(decision, htmlData): el is what htmlData's find
\* yields, succeed the strategies whose click would succeed, gotoOk the
\* outcome of the fallback page.goto
clickElementByDecision(d, el, succeed, gotoOk) ==
    LET tried == TryStrategies(ClickStrategies(d, el), succeed)
        clicked == tried /= <<>> /\ tried[Len(tried)] \in succeed
    IN  IF clicked THEN [attempts |-> tried, outcome |-> "clicked"]
        ELSE IF d.target_href /= Null
        THEN [attempts |-> tried \o <<"direct_navigation">>,
              outcome |-> IF gotoOk THEN "navigated" ELSE "thrown"]
        ELSE [attempts |-> tried, outcome |-> "thrown"]

\* const selectors = [name, id, placeholder, aria-label] of fillFormByDecision
FillSelectors == <<"name", "id", "placeholder", "aria_label">>

\* variant of the selector loop without the break
TrySelectorsNoBreak(field, selectors, succeed) ==
    [i \in 1..Len(selectors) |-> <<field, selectors[i]>>]

\* for (const selector of selectors) try { await page.fill; filled = true;
\* break } catch { continue }: the (field, selector) fills run
RECURSIVE TrySelectors(_, _, _)
TrySelectors(field, selectors, succeed) ==
    IF selectors = <<>> THEN <<>>
    ELSE IF <<field, Head(selectors)>> \in succeed THEN << <<field, Head(selectors)>> >>
    ELSE << <<field, Head(selectors)>> >> \o TrySelectors(field, Tail(selectors), succeed)

\* variant of the field loop that gives up after the first field
FillFieldsFirstOnly(fields, succeed) ==
    IF fields = <<>> THEN <<>>
    ELSE TrySelectors(Head(fields), FillSelectors, succeed)

\* for (const [fieldName, value] of Object.entries(fill_data))
RECURSIVE FillFields(_, _)
FillFields(fields, succeed) ==
    IF fields = <<>> THEN <<>>
    ELSE TrySelectors(Head(fields), FillSelectors, succeed) \o FillFields(Tail(fields), succeed)

\* fillFormByDecision(decision): fields are the keys of fill_data in entry
\* order (hasData FALSE: no fill_data), succeed the fills that would succeed
fillFormByDecision(hasData, fields, succeed) ==
    IF ~hasData THEN [attempts |-> <<>>, outcome |-> "thrown"]
    ELSE [attempts |-> FillFields(fields, succeed), outcome |-> "returned"]

\* the ActionRecord pushed by act
Record(d, ok) == [action |-> d.action, success |-> ok]

\* the URL given to page.goto by the operation act runs for d (Null when it
\* runs none): navigate goes to target_href || target_text, click_element
\* falls back to target_href when no strategy clicked
GotoTarget(d, clicked) ==
    CASE d.action = "navigate" ->
            IF d.target_href /= Null THEN d.target_href ELSE d.target_text
      [] d.action = "click_element" /\ clicked = 0 -> d.target_href
      [] OTHER -> Null

\* the operation of act's switch raises
OperationThrows(d, clicked, gotoOk, snapOk) ==
    CASE d.action = "navigate" -> ~(gotoOk /\ GotoTarget(d, clicked) \in AgentUrls)
      [] d.action = "click_element" ->
            clicked = 0 /\ ~(gotoOk /\ d.target_href \in AgentUrls)
      [] d.action = "fill_form" -> d.fill_data = Null
      [] d.action = "analyze" -> ~snapOk
      [] OTHER -> FALSE

\* the switch branch returns from act before the record is pushed
ReturnsBeforeRecord(d) == d.action \in {"analyze", "complete"}

\* a call on this.page: the Playwright method, its argument, the form field
\* it is for (fill only) and whether it succeeded
PageOp(op, arg, field, ok) == [op |-> op, arg |-> arg, field |-> field, ok |-> ok]

\* the keys of the fill_data of the decisions, in entry order
DataFields == <<"email", "password">>

\* variant of navigate that records the URL before page.goto has succeeded
visitedAfterNavigateEager(pages, url, went) == pages \cup {url}

\* navigate: await page.goto(url); this.memory.visitedPages.add(url)
visitedAfterNavigate(pages, url, went) == IF went THEN pages \cup {url} ELSE pages

\* act calls navigate for d: the navigate branch, or the fallback of
\* clickElementByDecision
NavigationAttempted(d, clicked) ==
    \/ d.action = "navigate"
    \/ d.action = "click_element" /\ clicked = 0 /\ d.target_href /= Null

\* the strategies whose click succeeds, given the index of the first one
ClickSucceed(d, el, clicked) ==
    IF clicked = 0 THEN {} ELSE {ClickStrategies(d, el)[clicked]}

\* the page operations of clickElementByDecision
ClickOps(d, el, clicked, went) ==
    LET tried == clickElementByDecision(d, el, ClickSucceed(d, el, clicked), went).attempts
    IN  [i \in 1..Len(tried) |->
            IF tried[i] = "direct_navigation"
            THEN PageOp("goto", d.target_href, Null, went)
            ELSE PageOp("click", tried[i], Null, tried[i] \in ClickSucceed(d, el, clicked))]

\* the page operations of fillFormByDecision, given the fills that succeed
FillOps(filled) ==
    LET tried == fillFormByDecision(TRUE, DataFields, filled).attempts
    IN  [i \in 1..Len(tried) |->
            PageOp("fill", tried[i][2], tried[i][1], tried[i] \in filled)]

\* variant of getCleanedHTML that reloads the page before reading it
SnapshotOpsReload(ok) ==
    <<PageOp("goto", "current", Null, ok)>>
    \o (IF ok THEN <<PageOp("content", Null, Null, TRUE)>> ELSE <<>>)

\* the page operations of getCleanedHTML: waitForTimeout(3000),
\* waitForLoadState('networkidle'), then content(), title() and url(); a
\* failure is that of the wait for network idle
SnapshotOps(ok) ==
    <<PageOp("waitForTimeout", "3000", Null, TRUE),
      PageOp("waitForLoadState", "networkidle", Null, ok)>>
    \o (IF ok THEN <<PageOp("content", Null, Null, TRUE), PageOp("title", Null, Null, TRUE),
                     PageOp("url", Null, Null, TRUE)>>
        ELSE <<>>)

\* the page operations of act for d
ActOps(d, el, clicked, gotoOk, snapOk, waitOk, filled) ==
    LET url == GotoTarget(d, clicked)
        went == url \in AgentUrls /\ gotoOk
    IN  (CASE d.action = "navigate" -> <<PageOp("goto", url, Null, went)>>
           [] d.action = "click_element" -> ClickOps(d, el, clicked, went)
           [] d.action = "fill_form" -> IF d.fill_data = Null THEN <<>> ELSE FillOps(filled)
           [] d.action = "analyze" -> SnapshotOps(snapOk)
           [] OTHER -> <<>>)
        \o (IF OperationThrows(d, clicked, gotoOk, snapOk) \/ ReturnsBeforeRecord(d)
            THEN <<>> ELSE <<PageOp("waitForTimeout", "2000", Null, waitOk)>>)

\* the fills that succeed: read by fillFormByDecision only
FillInputs(d) ==
    IF d.action = "fill_form" /\ d.fill_data /= Null
    THEN SUBSET {<<"email", "name">>, <<"email", "placeholder">>, <<"password", "id">>}
    ELSE {{}}

\* variant of act whose catch records nothing
ActRecordsDropsFailure(d, clicked, gotoOk, snapOk, waitOk) ==
    IF OperationThrows(d, clicked, gotoOk, snapOk) THEN <<>>
    ELSE IF ReturnsBeforeRecord(d) THEN <<>>
    ELSE IF waitOk THEN <<Record(d, TRUE)>>
    ELSE <<Record(d, TRUE), Record(d, FALSE)>>

\* the records act appends for d
ActRecords(d, clicked, gotoOk, snapOk, waitOk) ==
    IF OperationThrows(d, clicked, gotoOk, snapOk) THEN <<Record(d, FALSE)>>
    ELSE IF ReturnsBeforeRecord(d) THEN <<>>
    ELSE IF waitOk THEN <<Record(d, TRUE)>>
    ELSE <<Record(d, TRUE), Record(d, FALSE)>>

\* the value act returns for d
ActResult(d, clicked, gotoOk, snapOk, waitOk) ==
    IF OperationThrows(d, clicked, gotoOk, snapOk) THEN "error"
    ELSE IF d.action = "analyze" THEN "htmlData"
    ELSE IF d.action = "complete" THEN "complete"
    ELSE IF waitOk THEN "undefined"
    ELSE "error"

\* the outcomes of the browser operations that act reads for d: the element
\* found in the snapshot, the index of the first click strategy that succeeds
\* (0 for none), and whether page.goto, getCleanedHTML and the
\* waitForTimeout after the record succeed; an outcome act does not read is
\* fixed
ElementInputs(d) ==
    IF d.action = "click_element" /\ d.target_element /= Null
    THEN FoundElements ELSE {NoElement}

ClickInputs(d, el) ==
    IF d.action = "click_element" THEN 0..Len(ClickStrategies(d, el)) ELSE {0}

GotoInputs(d, clicked) ==
    IF GotoTarget(d, clicked) \in AgentUrls THEN BOOLEAN ELSE {FALSE}

SnapshotInputs(d) == IF d.action = "analyze" THEN BOOLEAN ELSE {TRUE}

WaitInputs(d, clicked, gotoOk) ==
    IF OperationThrows(d, clicked, gotoOk, TRUE) \/ ReturnsBeforeRecord(d)
    THEN {TRUE} ELSE BOOLEAN

\* the URL testWebsite is started on
SeedUrls == {"s"}

\* the fewest records act can append for d
MinRecords(d) == IF d.action \in {"analyze", "complete"} THEN 0 ELSE 1

\* Math.round(num / den * 100) for 0 <= num <= den, den > 0
MathRoundPercent(num, den) == (200 * num + den) \div (2 * den)

\* the successRate of generateReport: the text "<n>%", or "NaN%" when the
\* history is empty (0 / 0)
successRate(history) ==
    LET successful == Len(SelectSeq(history, LAMBDA h : h.success))
    IN  IF Len(history) = 0
        THEN [nan |-> TRUE, percent |-> 0]
        ELSE [nan |-> FALSE, percent |-> MathRoundPercent(successful, Len(history))]

\* variant of getRecommendations that lets a failed oracle request or an
\* unparseable reply escape
getRecommendationsRethrows(history, reply) ==
    IF SelectSeq(history, LAMBDA h : ~h.success) = <<>>
    THEN [requests |-> 0, text |-> "all_passed", threw |-> FALSE]
    ELSE [requests |-> 1,
          text |-> IF ThinkTrySucceeds(reply) THEN "reasoning" ELSE "none",
          threw |-> ~ThinkTrySucceeds(reply)]

\* getRecommendations: a fixed text when no action failed, else the reasoning
\* of one think call (that of think's default decision when the request or
\* the parse failed); requests counts the oracle requests issued
getRecommendations(history, reply) ==
    IF SelectSeq(history, LAMBDA h : ~h.success) = <<>>
    THEN [requests |-> 0, text |-> "all_passed", threw |-> FALSE]
    ELSE [requests |-> 1,
          text |-> IF think(reply) = DefaultDecision /\ ~ThinkTrySucceeds(reply)
                   THEN "default_reasoning" ELSE "reasoning",
          threw |-> FALSE]

\* the replies to the recommendations request: read only when an action failed
RecommendationReplies(history) ==
    IF SelectSeq(history, LAMBDA h : ~h.success) = <<>>
    THEN {[kind |-> "request_failed", fence |-> "none", json |-> NoDecision]}
    ELSE {r \in OracleReplies :
            r.fence = "none" /\ (r.kind = "json" => r.json = DefaultDecision)}

\* the summary of the report generateReport builds, with its recommendations
Report(history, reply) ==
    [built |-> TRUE,
     totalActions |-> Len(history),
     successfulActions |-> Len(SelectSeq(history, LAMBDA h : h.success)),
     failedActions |-> Len(SelectSeq(history, LAMBDA h : ~h.success)),
     successRate |-> successRate(history),
     oracleRequests |-> getRecommendations(history, reply).requests,
     recommendations |-> getRecommendations(history, reply).text]

NoReport ==
    [built |-> FALSE, totalActions |-> 0, successfulActions |-> 0, failedActions |-> 0,
     successRate |-> [nan |-> FALSE, percent |-> 0],
     oracleRequests |-> 0, recommendations |-> Null]

\* constructor
AgentInit ==
    /\ agentPc = "new"
    /\ browser = "none"
    /\ currentUrl = ""
    /\ visitedPages = {}
    /\ testHistory = <<>>
    /\ steps = 0
    /\ decision = NoDecision
    /\ result = Null
    /\ completed = FALSE
    /\ maxStepsLogged = FALSE
    /\ fatalAt = Null
    /\ thrownError = Null
    /\ revisited = FALSE
    /\ thinkOutcome = Null
    /\ report = NoReport
    /\ pageOps = <<>>

\* initialize: chromium.launch, newContext, newPage
Initialize(ok) ==
    /\ agentPc = "new"
    /\ pageOps' = <<>>
    /\ IF ok
       THEN browser' = "open" /\ agentPc' = "ready"
       ELSE browser' = browser /\ agentPc' = "init_failed"
    /\ UNCHANGED <<currentUrl, visitedPages, testHistory, steps, decision, result,
                   completed, maxStepsLogged, fatalAt, thrownError, revisited,
                   thinkOutcome, report, crawlVars, callVars, sessVars, flightVars, autoVars>>

\* variant of the start of testWebsite that goes on after a failed seed
\* navigation
TestWebsiteIgnoresSeedFailure(startUrl, gotoOk) ==
    /\ agentPc = "ready"
    /\ pageOps' = <<PageOp("goto", startUrl, Null, gotoOk)>>
    /\ steps' = 0
    /\ agentPc' = "loop"
    /\ IF gotoOk
       THEN /\ currentUrl' = startUrl
            /\ visitedPages' = visitedPages \cup {startUrl}
            /\ revisited' = (revisited \/ startUrl \in visitedPages)
       ELSE UNCHANGED <<currentUrl, visitedPages, revisited>>
    /\ UNCHANGED <<browser, testHistory, decision, result, completed, maxStepsLogged,
                   fatalAt, thrownError,
                   thinkOutcome, report, crawlVars, callVars, sessVars, flightVars, autoVars>>

\* testWebsite up to the loop: navigate(startUrl), steps = 0
TestWebsite(startUrl, gotoOk) ==
    /\ agentPc = "ready"
    /\ pageOps' = <<PageOp("goto", startUrl, Null, gotoOk)>>
    /\ steps' = 0
    /\ visitedPages' = visitedAfterNavigate(visitedPages, startUrl, gotoOk)
    /\ IF gotoOk
       THEN /\ currentUrl' = startUrl
            /\ revisited' = (revisited \/ startUrl \in visitedPages)
            /\ agentPc' = "loop"
            /\ UNCHANGED fatalAt
       ELSE /\ fatalAt' = "seed"
            /\ agentPc' = "catch"
            /\ UNCHANGED <<currentUrl, revisited>>
    /\ UNCHANGED <<browser, testHistory, decision, result, completed, maxStepsLogged,
                   thrownError,
                   thinkOutcome, report, crawlVars, callVars, sessVars, flightVars, autoVars>>

\* variant of the loop head with the condition steps <= maxSteps
LoopHeadOffByOne ==
    /\ agentPc = "loop"
    /\ pageOps' = <<>>
    /\ IF steps <= maxSteps
       THEN steps' = steps + 1 /\ agentPc' = "snapshot"
       ELSE steps' = steps /\ agentPc' = "postloop"
    /\ UNCHANGED <<browser, currentUrl, visitedPages, testHistory, decision, result,
                   completed, maxStepsLogged, fatalAt, thrownError, revisited,
                   thinkOutcome, report, crawlVars, callVars, sessVars, flightVars, autoVars>>

\* while (steps < maxSteps) { steps++ ...
LoopHead ==
    /\ agentPc = "loop"
    /\ pageOps' = <<>>
    /\ IF steps < maxSteps
       THEN steps' = steps + 1 /\ agentPc' = "snapshot"
       ELSE steps' = steps /\ agentPc' = "postloop"
    /\ UNCHANGED <<browser, currentUrl, visitedPages, testHistory, decision, result,
                   completed, maxStepsLogged, fatalAt, thrownError, revisited,
                   thinkOutcome, report, crawlVars, callVars, sessVars, flightVars, autoVars>>

\* const htmlData = await this.getCleanedHTML(): the settle wait or the
\* extraction may reject, which testWebsite's catch receives
GetCleanedHTML(ok) ==
    /\ agentPc = "snapshot"
    /\ pageOps' = SnapshotOps(ok)
    /\ IF ok
       THEN agentPc' = "think" /\ UNCHANGED fatalAt
       ELSE agentPc' = "catch" /\ fatalAt' = "extract"
    /\ UNCHANGED <<browser, currentUrl, visitedPages, testHistory, steps, decision,
                   result, completed, maxStepsLogged, thrownError, revisited,
                   thinkOutcome, report, crawlVars, callVars, sessVars, flightVars, autoVars>>

\* const decision = await this.think(...)
Think(reply) ==
    /\ agentPc = "think"
    /\ pageOps' = <<>>
    /\ Len(testHistory) + MinRecords(think(reply)) <= MaxRecords
    /\ decision' = think(reply)
    /\ thinkOutcome' = ThinkOutcomeOf(reply)
    /\ agentPc' = "act"
    /\ UNCHANGED <<browser, currentUrl, visitedPages, testHistory, steps, result,
                   completed, maxStepsLogged, fatalAt, thrownError, revisited,
                   report, crawlVars, callVars, sessVars, flightVars, autoVars>>

\* const result = await this.act(decision, htmlData)
Act(el, clicked, gotoOk, snapOk, waitOk, filled) ==
    /\ agentPc = "act"
    /\ pageOps' = ActOps(decision, el, clicked, gotoOk, snapOk, waitOk, filled)
    /\ Len(testHistory) + Len(ActRecords(decision, clicked, gotoOk, snapOk, waitOk))
          <= MaxRecords
    /\ LET url == GotoTarget(decision, clicked)
           went == url \in AgentUrls /\ gotoOk
       IN /\ currentUrl' = IF went THEN url ELSE currentUrl
          /\ visitedPages' = IF NavigationAttempted(decision, clicked)
                             THEN visitedAfterNavigate(visitedPages, url, went)
                             ELSE visitedPages
          /\ revisited' = (revisited \/ (url \in AgentUrls /\ url \in visitedPages))
    /\ testHistory' = testHistory \o ActRecords(decision, clicked, gotoOk, snapOk, waitOk)
    /\ result' = ActResult(decision, clicked, gotoOk, snapOk, waitOk)
    /\ decision' = NoDecision
    /\ thinkOutcome' = Null
    /\ agentPc' = "acted"
    /\ UNCHANGED <<browser, steps, completed, maxStepsLogged, fatalAt, thrownError,
                   report, crawlVars, callVars, sessVars, flightVars, autoVars>>

\* if (result === 'complete') break; else await this.page.waitForTimeout(1500)
CheckResult(waitOk) ==
    /\ agentPc = "acted"
    /\ pageOps' = IF result = "complete" THEN <<>>
                   ELSE <<PageOp("waitForTimeout", "1500", Null, waitOk)>>
    /\ IF result = "complete"
       THEN /\ completed' = TRUE
            /\ agentPc' = "postloop"
            /\ UNCHANGED fatalAt
       ELSE /\ UNCHANGED completed
            /\ IF waitOk
               THEN agentPc' = "loop" /\ UNCHANGED fatalAt
               ELSE agentPc' = "catch" /\ fatalAt' = "pause"
    /\ result' = Null
    /\ UNCHANGED <<browser, currentUrl, visitedPages, testHistory, steps, decision,
                   maxStepsLogged, thrownError, revisited,
                   thinkOutcome, report, crawlVars, callVars, sessVars, flightVars, autoVars>>

\* if (steps >= maxSteps) console.log("reached maximum steps")
PostLoop ==
    /\ agentPc = "postloop"
    /\ pageOps' = <<>>
    /\ maxStepsLogged' = (steps >= maxSteps)
    /\ agentPc' = "report"
    /\ UNCHANGED <<browser, currentUrl, visitedPages, testHistory, steps, decision,
                   result, completed, fatalAt, thrownError, revisited,
                   thinkOutcome, report, crawlVars, callVars, sessVars, flightVars, autoVars>>

\* return await this.generateReport(): getRecommendations, then the report
\* is written to a file (ok: the write succeeded) and returned
GenerateReport(ok, reply) ==
    /\ agentPc = "report"
    /\ pageOps' = <<>>
    /\ IF getRecommendations(testHistory, reply).threw
       THEN agentPc' = "catch" /\ fatalAt' = "recommendations" /\ UNCHANGED report
       ELSE IF ok
       THEN agentPc' = "returned" /\ report' = Report(testHistory, reply)
            /\ UNCHANGED fatalAt
       ELSE agentPc' = "catch" /\ fatalAt' = "report" /\ UNCHANGED report
    /\ UNCHANGED <<browser, currentUrl, visitedPages, testHistory, steps, decision,
                   result, completed, maxStepsLogged, thrownError, revisited,
                   thinkOutcome, crawlVars, callVars, sessVars, flightVars, autoVars>>

\* generateReport under every reply to its recommendations request
GenerateReportStep ==
    \E ok \in BOOLEAN : \E reply \in RecommendationReplies(testHistory) :
        GenerateReport(ok, reply)

\* catch (error) { await this.takeScreenshot(); throw error }
Catch(shotOk) ==
    /\ agentPc = "catch"
    /\ pageOps' = <<PageOp("screenshot", Null, Null, shotOk)>>
    /\ thrownError' = IF shotOk THEN fatalAt ELSE "screenshot"
    /\ agentPc' = "thrown"
    /\ UNCHANGED <<browser, currentUrl, visitedPages, testHistory, steps, decision,
                   result, completed, maxStepsLogged, fatalAt, revisited,
                   thinkOutcome, report, crawlVars, callVars, sessVars, flightVars, autoVars>>

\* cleanup: if (this.browser) await this.browser.close(); testWebsite never
\* calls it, a caller may after testWebsite has ended
Cleanup ==
    /\ agentPc \in {"returned", "thrown"}
    /\ pageOps' = <<>>
    /\ browser = "open"
    /\ browser' = "closed"
    /\ UNCHANGED <<agentPc, currentUrl, visitedPages, testHistory, steps, decision,
                   result, completed, maxStepsLogged, fatalAt, thrownError, revisited,
                   thinkOutcome, report, crawlVars, callVars, sessVars, flightVars, autoVars>>

\* act under every outcome of the browser operations it runs
ActStep ==
    \E el \in ElementInputs(decision) :
    \E clicked \in ClickInputs(decision, el) :
    \E gotoOk \in GotoInputs(decision, clicked) :
    \E snapOk \in SnapshotInputs(decision) :
    \E waitOk \in WaitInputs(decision, clicked, gotoOk) :
    \E filled \in FillInputs(decision) :
        Act(el, clicked, gotoOk, snapOk, waitOk, filled)

AgentNext ==
    \/ \E ok \in BOOLEAN : Initialize(ok)
    \/ \E startUrl \in SeedUrls, gotoOk \in BOOLEAN : TestWebsite(startUrl, gotoOk)
    \/ LoopHead
    \/ \E ok \in BOOLEAN : GetCleanedHTML(ok)
    \/ \E reply \in OracleReplies : Think(reply)
    \/ ActStep
    \/ \E waitOk \in BOOLEAN : CheckResult(waitOk)
    \/ PostLoop
    \/ GenerateReportStep
    \/ \E shotOk \in BOOLEAN : Catch(shotOk)
    \/ Cleanup

----------------------------------------------------------------------------
(* The awaits of testWebsite: every asynchronous call is a task that issues
   its operations one after another, and testWebsite is suspended on the
   task it awaits *)

\* the asynchronous calls testWebsite makes
CallSites == {"navigate", "getCleanedHTML", "think", "act", "waitForTimeout",
              "generateReport", "takeScreenshot"}

\* variant of testWebsite that does not await act
AwaitsExceptAct(site) == site \in CallSites \ {"act"}

\* the call at the site is preceded by await
Awaits(site) == site \in CallSites

NoTask == [site |-> Null, step |-> 0]

\* a started call: the operations it has still to issue (the first one is in
\* flight when flying), and what it settles with
Task(site, step, queue, threw, res, d) ==
    [site |-> site, step |-> step, queue |-> queue, flying |-> FALSE,
     threw |-> threw, result |-> res, decision |-> d]

TaskId(t) == [site |-> t.site, step |-> t.step]

NoneDone == [act |-> FALSE, append |-> "not_yet", pause |-> FALSE]

\* where testWebsite goes on after the call at the site settled
After(site, threw, res) ==
    CASE site = "navigate" -> IF threw THEN "takeScreenshot" ELSE "loop_head"
      [] site = "getCleanedHTML" -> IF threw THEN "takeScreenshot" ELSE "think"
      [] site = "think" -> "act"
      [] site = "act" -> IF res = "complete" THEN "generateReport" ELSE "waitForTimeout"
      [] site = "waitForTimeout" -> IF threw THEN "takeScreenshot" ELSE "loop_head"
      [] site = "generateReport" -> IF threw THEN "takeScreenshot" ELSE "returned"
      [] site = "takeScreenshot" -> "thrown"

FlightIdle ==
    /\ flightPc = "navigate"
    /\ flightStep = 0
    /\ flightDecision = NoDecision
    /\ tasks = {}
    /\ awaited = NoTask
    /\ flightDone = NoneDone
    /\ flightFailed = FALSE

\* testWebsite, not suspended, makes the call at the site: the task starts,
\* and testWebsite is suspended on it when the call is awaited
Invoke(site, t) ==
    /\ flightPc = site
    /\ awaited = NoTask
    /\ tasks' = tasks \cup {t}
    /\ IF Awaits(site)
       THEN awaited' = TaskId(t) /\ UNCHANGED flightPc
       ELSE awaited' = NoTask /\ flightPc' = After(site, FALSE, "promise")
    /\ UNCHANGED <<flightStep, flightDecision, flightFailed, crawlVars, agentVars,
                   callVars, sessVars, autoVars>>

\* await this.navigate(startUrl)
AwaitNavigate(startUrl, ok) ==
    /\ Invoke("navigate",
              Task("navigate", 0, <<PageOp("goto", startUrl, Null, ok)>>, ~ok,
                   "undefined", NoDecision))
    /\ UNCHANGED flightDone

\* while (steps < maxSteps) { steps++
FlightLoopHead ==
    /\ flightPc = "loop_head"
    /\ awaited = NoTask
    /\ IF flightStep < maxSteps
       THEN flightStep' = flightStep + 1 /\ flightPc' = "getCleanedHTML"
       ELSE flightPc' = "generateReport" /\ UNCHANGED flightStep
    /\ UNCHANGED <<flightDecision, tasks, awaited, flightDone, flightFailed,
                   crawlVars, agentVars, callVars, sessVars, autoVars>>

\* const htmlData = await this.getCleanedHTML()
AwaitGetCleanedHTML(ok) ==
    /\ Invoke("getCleanedHTML",
              Task("getCleanedHTML", flightStep, SnapshotOps(ok), ~ok, "htmlData",
                   NoDecision))
    /\ flightDone' = NoneDone

\* const decision = await this.think(...)
AwaitThink(reply) ==
    /\ Invoke("think",
              Task("think", flightStep,
                   <<PageOp("create", "chat.completions", Null,
                            reply.kind /= "request_failed")>>,
                   FALSE, "decision", think(reply)))
    /\ UNCHANGED flightDone

\* const result = await this.act(decision, htmlData)
AwaitAct(el, clicked, gotoOk, snapOk, waitOk, filled) ==
    /\ Invoke("act",
              Task("act", flightStep,
                   ActOps(flightDecision, el, clicked, gotoOk, snapOk, waitOk, filled),
                   FALSE, ActResult(flightDecision, clicked, gotoOk, snapOk, waitOk),
                   flightDecision))
    /\ UNCHANGED flightDone

AwaitActStep ==
    \E el \in ElementInputs(flightDecision) :
    \E clicked \in ClickInputs(flightDecision, el) :
    \E gotoOk \in GotoInputs(flightDecision, clicked) :
    \E snapOk \in SnapshotInputs(flightDecision) :
    \E waitOk \in WaitInputs(flightDecision, clicked, gotoOk) :
    \E filled \in FillInputs(flightDecision) :
        AwaitAct(el, clicked, gotoOk, snapOk, waitOk, filled)

\* await this.page.waitForTimeout(1500)
AwaitPause(ok) ==
    /\ Invoke("waitForTimeout",
              Task("waitForTimeout", flightStep,
                   <<PageOp("waitForTimeout", "1500", Null, ok)>>, ~ok, "undefined",
                   NoDecision))
    /\ UNCHANGED flightDone

\* return await this.generateReport(): the recommendations request when a
\* record failed, then fs.writeFile
AwaitGenerateReport(requestOk, ok) ==
    /\ Invoke("generateReport",
              Task("generateReport", flightStep,
                   (IF flightFailed
                    THEN <<PageOp("create", "chat.completions", Null, requestOk)>>
                    ELSE <<>>)
                   \o <<PageOp("writeFile", "report", Null, ok)>>,
                   ~ok, "report", NoDecision))
    /\ UNCHANGED flightDone

\* catch (error) { await this.takeScreenshot(); throw error }
AwaitTakeScreenshot(ok) ==
    /\ Invoke("takeScreenshot",
              Task("takeScreenshot", flightStep,
                   <<PageOp("mkdir", "screenshots", Null, TRUE),
                     PageOp("screenshot", "fullPage", Null, ok)>>,
                   ~ok, "filepath", NoDecision))
    /\ UNCHANGED flightDone

\* a task that has no operation in flight issues its next one
OperationStarts ==
    \E t \in tasks :
        /\ ~t.flying
        /\ t.queue /= <<>>
        /\ tasks' = (tasks \ {t}) \cup {[t EXCEPT !.flying = TRUE]}
        /\ UNCHANGED <<flightPc, flightStep, flightDecision, awaited, flightDone,
                       flightFailed, crawlVars, agentVars, callVars, sessVars, autoVars>>

\* the operation a task has in flight settles
OperationCompletes ==
    \E t \in tasks :
        /\ t.flying
        /\ tasks' = (tasks \ {t}) \cup {[t EXCEPT !.flying = FALSE, !.queue = Tail(t.queue)]}
        /\ UNCHANGED <<flightPc, flightStep, flightDecision, awaited, flightDone,
                       flightFailed, crawlVars, agentVars, callVars, sessVars, autoVars>>

\* a task that issued all its operations settles: act has appended its
\* record by then, and testWebsite resumes when it was suspended on the task
CallReturns ==
    \E t \in tasks :
        /\ ~t.flying
        /\ t.queue = <<>>
        /\ tasks' = tasks \ {t}
        /\ flightDone' =
             IF t.step /= flightStep THEN flightDone
             ELSE IF t.site = "act"
             THEN [flightDone EXCEPT !.act = TRUE,
                     !.append = IF ReturnsBeforeRecord(t.decision) /\ t.result /= "error"
                                THEN "no_record" ELSE "appended"]
             ELSE IF t.site = "waitForTimeout"
             THEN [flightDone EXCEPT !.pause = TRUE]
             ELSE flightDone
        /\ flightFailed' = (flightFailed \/ (t.site = "act" /\ t.result = "error"))
        /\ flightDecision' = IF t.site = "think" THEN t.decision ELSE flightDecision
        /\ IF awaited = TaskId(t)
           THEN awaited' = NoTask /\ flightPc' = After(t.site, t.threw, t.result)
           ELSE UNCHANGED <<awaited, flightPc>>
        /\ UNCHANGED <<flightStep, crawlVars, agentVars, callVars, sessVars, autoVars>>

AwaitNext ==
    \/ \E startUrl \in SeedUrls, ok \in BOOLEAN : AwaitNavigate(startUrl, ok)
    \/ FlightLoopHead
    \/ \E ok \in BOOLEAN : AwaitGetCleanedHTML(ok)
    \/ \E reply \in OracleReplies : AwaitThink(reply)
    \/ AwaitActStep
    \/ \E ok \in BOOLEAN : AwaitPause(ok)
    \/ \E requestOk \in BOOLEAN, ok \in BOOLEAN : AwaitGenerateReport(requestOk, ok)
    \/ \E ok \in BOOLEAN : AwaitTakeScreenshot(ok)
    \/ OperationStarts
    \/ OperationCompletes
    \/ CallReturns

----------------------------------------------------------------------------
(* browserAutomation: launch a browser, navigate, and either close the
   browser or leave it open and tracked in global._activeBrowsers *)

\* largest number of browserAutomation calls of the process
MaxCalls == 2

TestIds == {"t1", "t2"}

BrowserIds == 1..MaxCalls

NoCall == [testId |-> Null, keepBrowserOpen |-> FALSE, browser |-> 0]

\* the entry pushed to global._activeBrowsers
RegistryEntry(call, hasError) ==
    [browser |-> call.browser, testId |-> call.testId, hasError |-> hasError]

\* the object browserAutomation returns: browserLeft is keepBrowserOpen
AutomationResult(call, success) ==
    [browser |-> call.browser, success |-> success,
     browserLeft |-> call.keepBrowserOpen]

AutomationIdle ==
    /\ autoPc = "idle"
    /\ autoCall = NoCall
    /\ autoCalls = 0
    /\ browsers = [b \in BrowserIds |-> "none"]
    /\ activeBrowsers = <<>>
    /\ autoResults = <<>>

\* browserAutomation up to the try block: setupBrowser launches the browser;
\* its failure propagates to the caller
BrowserAutomation(testId, keepBrowserOpen, launched) ==
    /\ autoPc = "idle"
    /\ autoCalls < MaxCalls
    /\ autoCalls' = autoCalls + 1
    /\ IF launched
       THEN /\ browsers' = [browsers EXCEPT ![autoCalls + 1] = "running"]
            /\ autoCall' = [testId |-> testId, keepBrowserOpen |-> keepBrowserOpen,
                            browser |-> autoCalls + 1]
            /\ autoPc' = "navigate"
       ELSE /\ UNCHANGED <<browsers, autoCall, autoPc>>
    /\ UNCHANGED <<activeBrowsers, autoResults, crawlVars, agentVars, callVars,
                   sessVars, flightVars>>

\* the try block: navigateToWebsite returns success or failure (it catches
\* the error of page.goto); raised: a statement of the try block threw
NavigateToWebsite(ok, raised) ==
    /\ autoPc = "navigate"
    /\ IF raised
       THEN /\ autoPc' = "catch"
            /\ UNCHANGED <<autoCall, activeBrowsers, autoResults>>
       ELSE /\ autoPc' = "idle"
            /\ autoCall' = NoCall
            /\ autoResults' = Append(autoResults, AutomationResult(autoCall, ok))
            /\ activeBrowsers' =
                 IF ok /\ autoCall.keepBrowserOpen
                 THEN Append(activeBrowsers, RegistryEntry(autoCall, FALSE))
                 ELSE activeBrowsers
    /\ UNCHANGED <<autoCalls, browsers, crawlVars, agentVars, callVars, sessVars,
                   flightVars>>

\* the catch block: browser.close() unless keepBrowserOpen (an error of close
\* is logged), else the browser is pushed to the registry with hasError
AutomationCatch(closeOk) ==
    /\ autoPc = "catch"
    /\ IF ~autoCall.keepBrowserOpen
       THEN /\ browsers' = IF closeOk THEN [browsers EXCEPT ![autoCall.browser] = "closed"]
                           ELSE browsers
            /\ UNCHANGED activeBrowsers
       ELSE /\ activeBrowsers' = Append(activeBrowsers, RegistryEntry(autoCall, TRUE))
            /\ UNCHANGED browsers
    /\ autoResults' = Append(autoResults, AutomationResult(autoCall, FALSE))
    /\ autoPc' = "idle"
    /\ autoCall' = NoCall
    /\ UNCHANGED <<autoCalls, crawlVars, agentVars, callVars, sessVars, flightVars>>

AutomationNext ==
    \/ \E testId \in TestIds, keepBrowserOpen \in BOOLEAN, launched \in BOOLEAN :
            BrowserAutomation(testId, keepBrowserOpen, launched)
    \/ \E ok \in BOOLEAN, raised \in BOOLEAN : NavigateToWebsite(ok, raised)
    \/ \E closeOk \in BOOLEAN : AutomationCatch(closeOk)

----------------------------------------------------------------------------
(* Several instances: the objects the constructors create, and the steps of
   concurrent sessions that change them *)

Instances == {1, 2}

ContainerFields == {"visitedPages", "testHistory", "visitedUrls", "foundUrls"}

\* a container object: the instance whose constructor created it and the
\* field it was created for; owner 0 is an object that belongs to no instance
Refs == [owner : {0} \cup Instances, field : ContainerFields]

NoRef == [owner |-> 0, field |-> "none"]

NoInstance ==
    [kind |-> "none", visitedPages |-> NoRef, testHistory |-> NoRef,
     visitedUrls |-> NoRef, foundUrls |-> NoRef]

\* variant in which the container is one object shared by all instances
NewContainerShared(i, field) == [owner |-> 0, field |-> field]

\* `new Set()` and `[]` evaluated in a constructor: an object of instance i
NewContainer(i, field) == [owner |-> i, field |-> field]

SessionsIdle ==
    /\ sessions = [i \in Instances |-> NoInstance]
    /\ heap = [r \in Refs |-> <<>>]
    /\ actor = 0

\* new IntelligentTestingAgent(): memory.visitedPages = new Set(),
\* memory.testHistory = []
NewAgent(i) ==
    /\ sessions[i].kind = "none"
    /\ LET pages == NewContainer(i, "visitedPages")
           history == NewContainer(i, "testHistory")
       IN  /\ sessions' = [sessions EXCEPT ![i] =
                    [NoInstance EXCEPT !.kind = "agent", !.visitedPages = pages,
                                       !.testHistory = history]]
           /\ heap' = [heap EXCEPT ![pages] = <<>>, ![history] = <<>>]
    /\ actor' = i
    /\ UNCHANGED <<crawlVars, agentVars, callVars, flightVars, autoVars>>

\* new WebsiteCrawler(options), as analyzeWebsite does for each call:
\* visitedUrls = new Set(), foundUrls = new Set()
NewCrawler(i) ==
    /\ sessions[i].kind = "none"
    /\ LET visited == NewContainer(i, "visitedUrls")
           found == NewContainer(i, "foundUrls")
       IN  /\ sessions' = [sessions EXCEPT ![i] =
                    [NoInstance EXCEPT !.kind = "crawler", !.visitedUrls = visited,
                                       !.foundUrls = found]]
           /\ heap' = [heap EXCEPT ![visited] = <<>>, ![found] = <<>>]
    /\ actor' = i
    /\ UNCHANGED <<crawlVars, agentVars, callVars, flightVars, autoVars>>

\* navigate of agent i: this.memory.visitedPages.add(url)
SessionNavigate(i, url) ==
    /\ sessions[i].kind = "agent"
    /\ heap' = [heap EXCEPT ![sessions[i].visitedPages] = SetAdd(@, url)]
    /\ actor' = i
    /\ UNCHANGED <<sessions, crawlVars, agentVars, callVars, flightVars, autoVars>>

\* act of agent i: this.memory.testHistory.push(record)
SessionRecord(i, ok) ==
    /\ sessions[i].kind = "agent"
    /\ Len(heap[sessions[i].testHistory]) < MaxRecords
    /\ heap' = [heap EXCEPT ![sessions[i].testHistory] =
                    Append(@, [action |-> "navigate", success |-> ok])]
    /\ actor' = i
    /\ UNCHANGED <<sessions, crawlVars, agentVars, callVars, flightVars, autoVars>>

\* crawler i: this.foundUrls.add(url) for the start URL (seed TRUE) or for a
\* link that passes the admission test
SessionFound(i, url, seed) ==
    /\ sessions[i].kind = "crawler"
    /\ seed \/ (/\ url \notin Range(heap[sessions[i].visitedUrls])
                /\ Len(heap[sessions[i].foundUrls]) < MaxPagesBound)
    /\ seed => heap[sessions[i].visitedUrls] = <<>> /\ heap[sessions[i].foundUrls] = <<>>
    /\ heap' = [heap EXCEPT ![sessions[i].foundUrls] = SetAdd(@, url)]
    /\ actor' = i
    /\ UNCHANGED <<sessions, crawlVars, agentVars, callVars, flightVars, autoVars>>

\* crawler i: one turn of the loop: take the first pending URL out of
\* foundUrls and add it to visitedUrls
SessionVisit(i) ==
    /\ sessions[i].kind = "crawler"
    /\ Len(heap[sessions[i].foundUrls]) > 0
    /\ Len(heap[sessions[i].visitedUrls]) < MaxPagesBound
    /\ LET url == NextFound(heap[sessions[i].foundUrls])
       IN  heap' = [heap EXCEPT ![sessions[i].foundUrls] = SetDelete(@, url),
                                ![sessions[i].visitedUrls] = SetAdd(@, url)]
    /\ actor' = i
    /\ UNCHANGED <<sessions, crawlVars, agentVars, callVars, flightVars, autoVars>>

SessionsNext ==
    \/ \E i \in Instances : NewAgent(i)
    \/ \E i \in Instances : NewCrawler(i)
    \/ \E i \in Instances, url \in AgentUrls : SessionNavigate(i, url)
    \/ \E i \in Instances, ok \in BOOLEAN : SessionRecord(i, ok)
    \/ \E i \in Instances, url \in AgentUrls, seed \in BOOLEAN : SessionFound(i, url, seed)
    \/ \E i \in Instances : SessionVisit(i)

----------------------------------------------------------------------------
(* clickElementByDecision, fillFormByDecision and the element list of
   getCleanedHTML as functions of their arguments and of the outcomes of the
   page operations they await *)

MaxFields == 2
MaxElements == 3

\* click_element decisions; "/about" is a path, not an absolute URL
ClickDecisions ==
    {[action |-> "click_element", target_text |-> t, target_href |-> h,
      target_element |-> e, fill_data |-> Null, confidence |-> "high"] :
        t \in {Null, "Sign Up"}, h \in {Null, "s", "/about"}, e \in {Null, "el"}}

\* the calls of clickElementByDecision and the outcomes of what it awaits
ClickCalls ==
    {[decision |-> d, element |-> el, succeed |-> ok, gotoOk |-> g] :
        d \in ClickDecisions, el \in FoundElements,
        ok \in SUBSET {"exact_text", "partial_text", "exact_href", "path_href",
                       "element_id", "element_name", "element_type"},
        g \in BOOLEAN}

ClickInit ==
    /\ CrawlerInit /\ AgentInit /\ SessionsIdle /\ FlightIdle /\ AutomationIdle
    /\ callArgs \in {c \in ClickCalls :
            /\ c.succeed \subseteq Range(ClickStrategies(c.decision, c.element))
            /\ (c.decision.target_element = Null => c.element = NoElement)
            /\ (c.gotoOk => c.decision.target_href /= Null /\ UrlParses(c.decision.target_href))}
    /\ callResult = <<>>
    /\ callDone = FALSE

CallClickElementByDecision ==
    /\ ~callDone
    /\ callResult' = clickElementByDecision(callArgs.decision, callArgs.element,
                                            callArgs.succeed, callArgs.gotoOk)
    /\ callDone' = TRUE
    /\ UNCHANGED <<callArgs, crawlVars, agentVars, sessVars, flightVars, autoVars>>

FieldNames == {"email", "password", "phone"}

FillCalls ==
    {[hasData |-> FALSE, fields |-> <<>>, succeed |-> {}]}
    \cup
    {[hasData |-> TRUE, fields |-> f, succeed |-> ok] :
        f \in {q \in SeqsUpTo(FieldNames, MaxFields) : NoDuplicates(q)},
        ok \in SUBSET (FieldNames \X Range(FillSelectors))}

FillInit ==
    /\ CrawlerInit /\ AgentInit /\ SessionsIdle /\ FlightIdle /\ AutomationIdle
    /\ callArgs \in {c \in FillCalls :
            \A pair \in c.succeed : pair[1] \in Range(c.fields)}
    /\ callResult = <<>>
    /\ callDone = FALSE

CallFillFormByDecision ==
    /\ ~callDone
    /\ callResult' = fillFormByDecision(callArgs.hasData, callArgs.fields, callArgs.succeed)
    /\ callDone' = TRUE
    /\ UNCHANGED <<callArgs, crawlVars, agentVars, sessVars, flightVars, autoVars>>

\* const selectors of getCleanedHTML, in declaration order
selectors ==
    <<"input", "select", "textarea", "button", "a[href]", "[onclick]",
      "[role=button]", "[role=link]", ".btn", ".button", ".link", "[data-testid]">>

\* elements of a page: tag, class, text (after the fallbacks to value,
\* placeholder, aria-label and title), href, id and name; a missing attribute
\* is Null, as `$el.attr(..) || null` gives
PageElements ==
    {[tag |-> "button", class |-> c, text |-> "Login", href |-> Null, id |-> i, name |-> Null] :
        c \in {Null, "btn"}, i \in {Null, "go"}}
    \cup
    {[tag |-> "a", class |-> c, text |-> t, href |-> "/about", id |-> Null, name |-> Null] :
        c \in {Null, "btn"}, t \in {"About", "Login"}}
    \cup
    {[tag |-> "input", class |-> Null, text |-> "", href |-> Null, id |-> Null, name |-> n] :
        n \in {"email", "password"}}

\* $(selector) matches the element
Matches(el, selector) ==
    CASE selector = "input" -> el.tag = "input"
      [] selector = "button" -> el.tag = "button"
      [] selector = "a[href]" -> el.tag = "a" /\ el.href /= Null
      [] selector = ".btn" -> el.class = "btn"
      [] OTHER -> FALSE

\* the descriptor pushed for an element found under a selector
Descriptor(el, selector, index) ==
    [index |-> index, tag |-> el.tag, selector |-> selector, text |-> el.text,
     id |-> el.id, name |-> el.name, href |-> el.href]

\* selectors.forEach(selector => $(selector).each(... push ...)): the
\* descriptors pushed for selectors k.., after those in acc; page is the
\* sequence of the page's elements in document order
RECURSIVE EnumerateFrom(_, _, _)
EnumerateFrom(k, page, acc) ==
    IF k > Len(selectors) THEN acc
    ELSE LET found == SelectSeq(page, LAMBDA el : Matches(el, selectors[k]))
         IN  EnumerateFrom(k + 1, page,
                acc \o [i \in 1..Len(found) |->
                            Descriptor(found[i], selectors[k], Len(acc) + i - 1)])

interactiveElements(page) == EnumerateFrom(1, page, <<>>)

SameTriple(e, element) ==
    e.text = element.text /\ e.href = element.href /\ e.id = element.id

\* variant of findIndex that yields the last index with the same triple
findIndexLast(self, element) ==
    CHOOSE k \in 1..Len(self) :
        /\ SameTriple(self[k], element)
        /\ \A j \in (k + 1)..Len(self) : ~SameTriple(self[j], element)

\* self.findIndex(e => same text, href and id), 1-based
findIndex(self, element) ==
    CHOOSE k \in 1..Len(self) :
        /\ SameTriple(self[k], element)
        /\ \A j \in 1..(k - 1) : ~SameTriple(self[j], element)

\* interactiveElements.filter((element, index, self) => index ===
\* self.findIndex(...)); an element's index field is its array index
uniqueElements(self) ==
    SelectSeq(self, LAMBDA element : element.index + 1 = findIndex(self, element))

\* the element lists of getCleanedHTML: as pushed, and as returned
getCleanedHTML(page) ==
    [pushed |-> interactiveElements(page),
     interactiveElements |-> uniqueElements(interactiveElements(page))]

SnapshotInit ==
    /\ CrawlerInit /\ AgentInit /\ SessionsIdle /\ FlightIdle /\ AutomationIdle
    /\ callArgs \in SeqsUpTo(PageElements, MaxElements)
    /\ callResult = <<>>
    /\ callDone = FALSE

CallGetCleanedHTML ==
    /\ ~callDone
    /\ callResult' = getCleanedHTML(callArgs)
    /\ callDone' = TRUE
    /\ UNCHANGED <<callArgs, crawlVars, agentVars, sessVars, flightVars, autoVars>>

----------------------------------------------------------------------------
(* Specifications *)

vars == <<crawlVars, agentVars, callVars, sessVars, flightVars, autoVars>>

Init == CrawlerInit /\ AgentInit /\ CallIdle /\ SessionsIdle /\ FlightIdle /\ AutomationIdle

\* a crawl of a freshly constructed WebsiteCrawler
SpecCrawler == Init /\ [][CrawlerNext]_vars

\* a session of a freshly constructed IntelligentTestingAgent
AgentSessionInit == Init /\ maxPages = MaxPagesBound

SpecAgent == AgentSessionInit /\ [][AgentNext]_vars

\* one call of clickElementByDecision
SpecClick == ClickInit /\ [][CallClickElementByDecision]_vars

\* one call of fillFormByDecision
SpecFill == FillInit /\ [][CallFillFormByDecision]_vars

\* one call of getCleanedHTML on a page
SpecSnapshot == SnapshotInit /\ [][CallGetCleanedHTML]_vars

\* two instances constructed and run in any interleaving
SpecSessions == Init /\ [][SessionsNext]_vars

\* the browserAutomation calls of a process
SpecAutomation == AgentSessionInit /\ [][AutomationNext]_vars

\* the awaits of one testWebsite session
SpecAwait == AgentSessionInit /\ [][AwaitNext]_vars

----------------------------------------------------------------------------
(* Properties of the crawler *)

\* C1: in every state of a crawl the number of URLs in visitedUrls is at most
\* maxPages.
VisitedWithinMaxPages == Cardinality(visitedUrls) <= maxPages

\* the cap is reached while URLs are still pending
VisitedCapReached ==
    /\ maxPages >= 2
    /\ Cardinality(visitedUrls) = maxPages
    /\ Len(foundUrls) > 0
    /\ crawlPc = "loop"

\* C2: no URL is in both visitedUrls and foundUrls, after seeding, after each
\* pop, after each mark-visited and after each link admission.
VisitedPendingDisjoint == visitedUrls \cap Range(foundUrls) = {}

\* a page exposed a link to a visited URL while other URLs are pending
VisitedLinkOffered ==
    /\ crawlPc = "links"
    /\ linkIdx > 1
    /\ links[linkIdx - 1] \in visitedUrls
    /\ Len(foundUrls) > 0

\* C4 (as claimed): after every link admission |visited| + |pending| <= maxPages.
AdmissionBoundsVisitedPlusPending ==
    crawlPc = "links" => Cardinality(visitedUrls) + Len(foundUrls) <= maxPages

\* C4 (amended): a link is inserted into pending only if |pending| < maxPages
\* and the link is not visited and not pending; otherwise the forEach step
\* changes neither set and raises nothing; |pending| <= maxPages in every state.
AdmissionBoundsPending ==
    /\ [](Len(foundUrls) <= maxPages)
    /\ [][(crawlPc = "links" /\ linkIdx <= Len(links)) =>
            /\ crawlPc' = "links"
            /\ visitedUrls' = visitedUrls
            /\ \/ foundUrls' = foundUrls
               \/ /\ Len(foundUrls) < maxPages
                  /\ links[linkIdx] \notin visitedUrls
                  /\ links[linkIdx] \notin Range(foundUrls)
                  /\ foundUrls' = Append(foundUrls, links[linkIdx])]_vars

\* a link that is neither visited nor pending was skipped because pending is
\* full, with |visited| + |pending| above maxPages
LinkSkippedAtCapacity ==
    /\ crawlPc = "links"
    /\ linkIdx > 1
    /\ Len(foundUrls) = maxPages
    /\ links[linkIdx - 1] \notin Range(foundUrls)
    /\ links[linkIdx - 1] \notin visitedUrls
    /\ Cardinality(visitedUrls) + Len(foundUrls) > maxPages

\* the analysis of the seed page has gone through all its n > maxPages
\* distinct links
SeedLinksDone ==
    /\ crawlPc = "links"
    /\ Len(visitOrder) = 1
    /\ linkIdx > Len(links)
    /\ NoDuplicates(links)
    /\ Len(links) > maxPages

\* C5 (as claimed): at most maxPages URLs enter visited, and the links of the
\* seed page beyond the cap are never placed in pending.
CapRejectedNeverQueued ==
    /\ Cardinality(visitedUrls) <= maxPages
    /\ capRejected \cap Range(foundUrls) = {}

\* C5 (amended): at most maxPages URLs enter visited; the analysis of a seed
\* page with n > maxPages distinct links leaves exactly maxPages of them in
\* pending and discards the other n - maxPages, which are not pending as long
\* as the seed page is the only page analysed.
CapRejectedAtDiscovery ==
    /\ Cardinality(visitedUrls) <= maxPages
    /\ SeedLinksDone =>
          /\ Len(foundUrls) = maxPages
          /\ Cardinality({l \in Range(links) : l \notin Range(foundUrls)})
                = Len(links) - maxPages
    /\ Len(visitOrder) = 1 => capRejected \cap Range(foundUrls) = {}

\* the seed page exposed 3 distinct links under maxPages = 2
SeedExposedMoreThanCap ==
    /\ SeedLinksDone
    /\ maxPages = 2
    /\ Len(links) = 3
    /\ capRejected /= {}

\* C6: the crawl visits URLs in the order of their insertion into pending
\* (the next page is always the earliest-inserted pending URL), and no page
\* is taken once pending is empty.
CrawlIsFifo ==
    /\ Len(visitOrder) <= Len(admitOrder)
    /\ \A i \in 1..Len(visitOrder) : visitOrder[i] = admitOrder[i]
    /\ crawlPc \in {"popped", "analyze"} => crawlUrl = admitOrder[Len(visitOrder) + (IF crawlPc = "popped" THEN 1 ELSE 0)]
    /\ (crawlPc = "loop" /\ foundUrls = <<>>) => ~ENABLED PopUrl

\* three URLs were visited, the last two admitted from links
ThreeVisitedInOrder ==
    /\ Len(visitOrder) = 3
    /\ crawlPc = "returned"
    /\ foundUrls = <<>>


----------------------------------------------------------------------------
(* Properties of the agent's run loop *)

\* C3: within one session no URL is visited twice: the crawler never calls
\* analyzePage on a URL twice, and the agent never calls page.goto on a URL
\* that is already in memory.visitedPages.
NoUrlVisitedTwice == NoDuplicates(visitOrder) /\ ~revisited

\* C7: once the decision of a step is `complete` the loop is left at that
\* step (no further snapshot, oracle request or action), and the run is not
\* classified as having reached the maximum number of steps.
CompleteEndsRunAsComplete ==
    completed =>
        /\ agentPc \in {"postloop", "report", "returned", "catch", "thrown"}
        /\ ~maxStepsLogged

\* C8: no run is classified both as COMPLETE (loop left by the `complete`
\* break) and as MAX_STEPS_REACHED (post-loop branch steps >= maxSteps).
TerminalStatesExclusive == ~(completed /\ maxStepsLogged)

\* C9: testWebsite never ends with an exception raised inside the iteration
\* loop (snapshot extraction, inter-step wait): only seed failures propagate.
NoLoopFailurePropagates == agentPc = "thrown" => fatalAt \notin {"extract", "pause"}

\* C10: every call of act appends exactly one ActionRecord to testHistory.
ActAppendsExactlyOneRecord ==
    [][agentPc = "act" => Len(testHistory') = Len(testHistory) + 1]_vars

----------------------------------------------------------------------------
(* Properties of the oracle gateway, the terminal paths and termination *)

\* C11: for a reply that is no JSON, and when the oracle request fails, think
\* returns the decision {action: analyze, confidence: low} without throwing,
\* and the loop goes on to execute it and to its next step instead of ending
\* the session.
ThinkDefaultsOnBadReply ==
    /\ [](thinkOutcome \in {"parse_error", "request_error"} =>
            /\ agentPc = "act"
            /\ decision = DefaultDecision
            /\ decision.action = "analyze" /\ decision.confidence = "low")
    /\ [][(agentPc = "think") => (agentPc' = "act" /\ thinkOutcome' /= Null)]_vars
    /\ [][(agentPc = "act" /\ thinkOutcome \in {"parse_error", "request_error"}) =>
            (agentPc' = "acted" /\ result' \in {"htmlData", "error"})]_vars
    /\ [][(agentPc = "acted" /\ result \in {"htmlData", "error"}) =>
            (agentPc' = "loop" \/ (agentPc' = "catch" /\ fatalAt' = "pause"))]_vars

\* think fell back to the default decision on an unparseable reply at step 2
\* and the loop is about to execute it
BadReplyDefaulted ==
    /\ agentPc = "act"
    /\ thinkOutcome = "parse_error"
    /\ decision = DefaultDecision
    /\ steps = 2

\* C12: a decision whose action is outside the five kinds is normalized to
\* analyze before it is executed: act never receives such a decision and no
\* ActionRecord carries such an action.
OnlyFiveKindsExecuted ==
    /\ agentPc = "act" => decision.action \in ActionKinds
    /\ \A i \in 1..Len(testHistory) : testHistory[i].action \in ActionKinds

\* C16: on every exit path of a session the browser launched for it is
\* closed: when testWebsite has returned or thrown, and when crawlWebsite has
\* returned or thrown.
BrowserClosedOnExit ==
    /\ agentPc \in {"returned", "thrown"} => browser /= "open"
    /\ crawlPc \in {"returned", "thrown"} => crawlBrowser /= "open"

\* C17: when the seed navigation fails no iteration runs, no report is built,
\* the screenshot is attempted and testWebsite throws.
SeedFailureIsFatal ==
    /\ [](fatalAt = "seed" =>
            /\ agentPc \in {"catch", "thrown"}
            /\ steps = 0
            /\ testHistory = <<>>
            /\ ~report.built
            /\ (agentPc = "thrown" <=> thrownError \in {"seed", "screenshot"}))
    /\ [][(agentPc = "ready" /\ visitedPages' = visitedPages) =>
            (agentPc' = "catch" /\ fatalAt' = "seed")]_vars
    /\ [][(agentPc = "catch") => (agentPc' = "thrown" /\ thrownError' /= Null)]_vars

\* the seed navigation failed and its error reached the caller
SeedFailureThrown ==
    /\ agentPc = "thrown"
    /\ fatalAt = "seed"
    /\ thrownError = "seed"
    /\ visitedPages = {}

\* the positions at which testWebsite (or initialize) has ended
TerminalPcs == {"returned", "thrown", "init_failed"}

\* a measure that every step of testWebsite decreases
PcRank ==
    CASE agentPc = "new" -> 12
      [] agentPc = "ready" -> 11
      [] agentPc = "snapshot" -> 9
      [] agentPc = "think" -> 8
      [] agentPc = "act" -> 7
      [] agentPc = "acted" -> 6
      [] agentPc = "loop" -> 5
      [] agentPc = "postloop" -> 4
      [] agentPc = "report" -> 3
      [] agentPc = "catch" -> 2
      [] OTHER -> 0

AgentRank == (maxSteps - steps) * 10 + PcRank

\* C20: the loop of testWebsite runs at most maxSteps iterations, each with
\* one snapshot, one oracle request and one act call in this order, and the
\* run reaches a terminal state: every step decreases a bounded measure and a
\* run that has not ended can always take a step.
TestWebsiteTerminates ==
    /\ [](steps <= maxSteps /\ AgentRank >= 0)
    /\ [](agentPc \notin TerminalPcs => ENABLED AgentNext)
    /\ [][agentPc \notin TerminalPcs => AgentRank' < AgentRank]_vars
    /\ [][agentPc' = "snapshot" => (agentPc = "loop" /\ steps' = steps + 1)]_vars
    /\ [][agentPc' = "think" => (agentPc = "snapshot" /\ steps' = steps)]_vars
    /\ [][agentPc' = "act" => (agentPc = "think" /\ steps' = steps)]_vars
    /\ [][agentPc' = "acted" => (agentPc = "act" /\ steps' = steps)]_vars

\* fifteen iterations ran without a `complete` decision and the run returned
FifteenIterationsThenReturned ==
    /\ agentPc = "returned"
    /\ steps = maxSteps
    /\ ~completed

----------------------------------------------------------------------------
(* Properties of the action executor, the snapshot and the report *)

\* the order of the click strategies as the contract numbers them; the
\* selectors from the descriptor's id, name and type are its strategy (5)
StrategyOrder ==
    <<"exact_text", "partial_text", "exact_href", "path_href",
      "element_id", "element_name", "element_type", "direct_navigation">>

StrategyPosition(strategy) == CHOOSE i \in 1..Len(StrategyOrder) : StrategyOrder[i] = strategy

\* the attempt of a strategy in the finished call succeeded
AttemptSucceeded(strategy) ==
    IF strategy = "direct_navigation" THEN callArgs.gotoOk
    ELSE strategy \in callArgs.succeed

\* C13: a click_element decision is resolved by trying exact text, partial
\* text, exact href, path-only href, the descriptor's id/name/type selectors
\* and direct navigation strictly in this order, stopping at the first that
\* succeeds; when the exact-text click succeeds nothing else is attempted.
ClickStopsAtFirstSuccess ==
    callDone =>
        LET a == callResult.attempts
            d == callArgs.decision
        IN  /\ \A i, j \in 1..Len(a) :
                    i < j => StrategyPosition(a[i]) < StrategyPosition(a[j])
            /\ \A i \in 1..(Len(a) - 1) : ~AttemptSucceeded(a[i])
            /\ (d.target_text /= Null => (a /= <<>> /\ a[1] = "exact_text"))
            /\ (d.target_text /= Null /\ "exact_text" \in callArgs.succeed =>
                    a = <<"exact_text">>)
            /\ (callResult.outcome /= "thrown" <=>
                    (a /= <<>> /\ AttemptSucceeded(a[Len(a)])))

\* the exact-text click succeeded while later strategies would have succeeded
\* too, and it was the only attempt
ExactTextClickedOnly ==
    /\ callDone
    /\ callResult.attempts = <<"exact_text">>
    /\ {"partial_text", "exact_href", "element_id"} \subseteq callArgs.succeed
    /\ callArgs.gotoOk

\* the selector order of the contract for one field
FillOrder == <<"name", "id", "placeholder", "aria_label">>

\* C14: each field of a fill_form decision is tried against the name, id,
\* placeholder and aria-label selectors in this order; the first fill that
\* succeeds ends the attempts for that field.
FillStopsAtFirstSuccess ==
    (callDone /\ callArgs.hasData) =>
        LET a == callResult.attempts
        IN  /\ \A f \in Range(callArgs.fields) :
                LET af == SelectSeq(a, LAMBDA pair : pair[1] = f)
                IN  /\ af /= <<>> /\ Len(af) <= Len(FillOrder)
                    /\ \A i \in 1..Len(af) : af[i][2] = FillOrder[i]
                    /\ \A i \in 1..(Len(af) - 1) : af[i] \notin callArgs.succeed
                    /\ (Len(af) < Len(FillOrder) => af[Len(af)] \in callArgs.succeed)
                    /\ (<<f, "name">> \in callArgs.succeed => af = << <<f, "name">> >>)
            /\ \A i \in 1..Len(a) : a[i][1] \in Range(callArgs.fields)
            /\ \A i, j \in 1..Len(a) : \A m, n \in 1..Len(callArgs.fields) :
                    (i < j /\ callArgs.fields[m] = a[i][1] /\ callArgs.fields[n] = a[j][1])
                        => m <= n

\* [name=email] was filled, the id selector would have worked too, and it was
\* the only selector attempted for email
NameSelectorOnlyAttempt ==
    /\ callDone
    /\ callArgs.hasData
    /\ callArgs.fields = <<"email", "password">>
    /\ {<<"email", "name">>, <<"email", "id">>} \subseteq callArgs.succeed
    /\ SelectSeq(callResult.attempts, LAMBDA pair : pair[1] = "email")
            = << <<"email", "name">> >>

SelectorPosition(selector) == CHOOSE i \in 1..Len(selectors) : selectors[i] = selector

SuccessRateDefined ==
    report.built =>
        /\ ~report.successRate.nan
        /\ (report.totalActions > 0 =>
                LET p == report.successRate.percent
                    scaled == 100 * report.successfulActions
                IN  /\ 2 * (scaled - p * report.totalActions) <= report.totalActions
                    /\ 2 * (p * report.totalActions - scaled) < report.totalActions)

----------------------------------------------------------------------------
(* Properties of concurrent sessions *)

\* the containers instance i refers to
ContainersOf(i) ==
    {sessions[i].visitedPages, sessions[i].testHistory,
     sessions[i].visitedUrls, sessions[i].foundUrls} \ {NoRef}

\* the session memory and frontier of instance i: the contents of its
\* testHistory / visitedPages or visitedUrls / foundUrls
SessionMemory(i) ==
    IF sessions[i].kind = "agent"
    THEN <<heap[sessions[i].visitedPages], heap[sessions[i].testHistory]>>
    ELSE IF sessions[i].kind = "crawler"
    THEN <<heap[sessions[i].visitedUrls], heap[sessions[i].foundUrls]>>
    ELSE <<>>

\* C19: sessions on distinct instances share no session memory or frontier:
\* distinct instances refer to disjoint containers, and in every interleaving
\* a step of one instance leaves testHistory / visitedPages and visitedUrls /
\* foundUrls of every other instance as they were.
SessionsIsolated ==
    /\ [](\A i, j \in Instances : i /= j => ContainersOf(i) \cap ContainersOf(j) = {})
    /\ [][\A j \in Instances : j /= actor' => SessionMemory(j)' = SessionMemory(j)]_vars

\* an agent and a crawler, and steps of both interleaved, each holding what
\* its own steps put there
TwoSessionsInterleaved ==
    /\ sessions[1].kind = "agent" /\ sessions[2].kind = "crawler"
    /\ SessionMemory(1) = << <<"s", "a">>, <<[action |-> "navigate", success |-> TRUE]>> >>
    /\ SessionMemory(2) = << <<"a">>, <<"s">> >>
    /\ actor = 1

----------------------------------------------------------------------------
(* Properties of the crawl: termination and failed pages *)

\* the positions at which crawlWebsite has ended
CrawlTerminalPcs == {"returned", "thrown"}

\* a measure that every step of crawlWebsite decreases
CrawlPcRank ==
    CASE crawlPc = "new" -> MaxLinks + 7
      [] crawlPc = "analyze" -> MaxLinks + 6
      [] crawlPc = "links" -> 4 + (Len(links) + 1 - linkIdx)
      [] crawlPc = "delay" -> 3
      [] crawlPc = "loop" -> 2
      [] crawlPc = "popped" -> 1
      [] OTHER -> 0

CrawlRank == (maxPages - Cardinality(visitedUrls)) * (MaxLinks + 10) + CrawlPcRank

\* C21: crawlWebsite terminates for every link graph: every iteration of its
\* loop adds exactly one new URL to visitedUrls, there are at most maxPages
\* iterations, also when page analyses fail, every step decreases a bounded
\* measure and a crawl that has not ended can always take a step.
CrawlWebsiteTerminates ==
    /\ [](/\ Len(visitOrder) = Cardinality(visitedUrls)
          /\ Len(visitOrder) <= maxPages
          /\ CrawlRank >= 0)
    /\ [](crawlPc \notin CrawlTerminalPcs => ENABLED CrawlerNext)
    /\ [][crawlPc \notin CrawlTerminalPcs => CrawlRank' < CrawlRank]_vars
    /\ [][crawlPc = "popped" =>
            /\ crawlUrl \notin visitedUrls
            /\ visitedUrls' = visitedUrls \cup {crawlUrl}
            /\ crawlPc' = "analyze"]_vars
    /\ [][crawlPc' = "popped" => crawlPc = "loop"]_vars

\* the crawl returned after maxPages iterations on pages that link to each
\* other and to themselves, with a failed analysis and links still pending
CyclicCrawlReturned ==
    /\ crawlPc = "returned"
    /\ maxPages = MaxPagesBound
    /\ Cardinality(visitedUrls) = maxPages
    /\ failedUrls /= {}
    /\ foundUrls /= <<>>

\* C30: a page whose analysis fails does not abort the crawl: the loop goes on
\* to its delay and the next pending URL, the failed URL stays in visitedUrls,
\* is never queued or analysed again and gets no entry in results;
\* results.length <= |visitedUrls| <= maxPages, and totalPages of the report
\* counts the successfully analysed pages only.
FailedPageDoesNotAbortCrawl ==
    /\ [](/\ failedUrls \subseteq visitedUrls
          /\ failedUrls \cap Range(foundUrls) = {}
          /\ failedUrls \cap Range(results) = {}
          /\ NoDuplicates(visitOrder)
          /\ Len(results) <= Cardinality(visitedUrls)
          /\ Cardinality(visitedUrls) <= maxPages
          /\ (totalPages /= NoTotal =>
                /\ totalPages = Len(results)
                /\ totalPages = Cardinality(visitedUrls \ failedUrls)))
    /\ [][crawlPc = "analyze" => crawlPc' \in {"links", "delay"}]_vars
    /\ [][failedUrls' /= failedUrls =>
            /\ crawlPc' = "delay"
            /\ UNCHANGED <<visitedUrls, foundUrls, results>>]_vars
    /\ [][(crawlPc = "delay" /\ crawlPc' /= "loop") => crawlPc' = "thrown"]_vars

\* the second page failed, the crawl went on to analyse a third page and
\* returned a report that counts two pages for three visited
CrawlWentOnAfterFailure ==
    /\ crawlPc = "returned"
    /\ Len(visitOrder) = 3
    /\ failedUrls = {visitOrder[2]}
    /\ results = <<visitOrder[1], visitOrder[3]>>
    /\ totalPages = 2

----------------------------------------------------------------------------
(* Properties of the executor boundary, navigation and the report *)

\* the fields the decision schema requires for the kind of d are present
HasRequiredFields(d) ==
    /\ d.action = "click_element" =>
            (d.target_text /= Null \/ d.target_href /= Null \/ d.target_element /= Null)
    /\ d.action = "fill_form" => d.fill_data /= Null

\* C23: a reply that names one of the five kinds without that kind's required
\* fields is replaced by the default decision in think; act never receives a
\* click_element decision without any target or a fill_form decision
\* without fill_data.
IncompleteDecisionRejected ==
    agentPc = "act" => HasRequiredFields(decision)

\* the page operations of one kind among ops
OpsOf(ops, kinds) == SelectSeq(ops, LAMBDA o : o.op \in kinds)

\* the operation act ran for d raised, as its page operations show
OperationRaised(d, ops) ==
    CASE d.action = "navigate" -> \E o \in Range(ops) : o.op = "goto" /\ ~o.ok
      [] d.action = "click_element" ->
            \A o \in Range(ops) : o.op \in {"click", "goto"} => ~o.ok
      [] d.action = "fill_form" -> d.fill_data = Null
      [] OTHER -> FALSE

\* C22: when the navigate, click_element or fill_form operation raises inside
\* act, act does not throw: it appends one ActionRecord with success = false,
\* returns 'error', and the loop goes on to its pause and next step.
ActConvertsFailureToRecord ==
    /\ [][(agentPc = "act" /\ OperationRaised(decision, pageOps')) =>
            /\ agentPc' = "acted"
            /\ testHistory' = Append(testHistory, Record(decision, FALSE))
            /\ result' = "error"]_vars
    /\ [][(agentPc = "acted" /\ result = "error") =>
            (agentPc' = "loop" \/ (agentPc' = "catch" /\ fatalAt' = "pause"))]_vars
    /\ [][(agentPc = "loop" /\ steps < maxSteps) => agentPc' = "snapshot"]_vars

\* the click of step 1 could not be resolved, one failed record was appended
\* and step 2 is taking its snapshot
FailedClickThenNextStep ==
    /\ agentPc = "snapshot"
    /\ steps = 2
    /\ testHistory = <<[action |-> "click_element", success |-> FALSE]>>

\* C24: for a click_element decision on which every click strategy fails,
\* direct navigation to target_href is attempted exactly once, after all
\* clicks, when target_href is present; without target_href nothing is
\* navigated, a failed ActionRecord is appended and act returns 'error'; act
\* never throws. Direct navigation is not attempted after a successful click.
ClickFallbackIsLastResort ==
    [][(agentPc = "act" /\ decision.action = "click_element") =>
        LET clicks == OpsOf(pageOps', {"click"})
            gotos == OpsOf(pageOps', {"goto"})
            n == Len(clicks)
        IN  /\ agentPc' = "acted"
            /\ \A i \in 1..n : pageOps'[i] = clicks[i]
            /\ IF \A i \in 1..n : ~clicks[i].ok
               THEN IF decision.target_href /= Null
                    THEN /\ Len(gotos) = 1
                         /\ pageOps'[n + 1] = gotos[1]
                         /\ gotos[1].arg = decision.target_href
                         /\ (~gotos[1].ok =>
                                /\ testHistory' = Append(testHistory, Record(decision, FALSE))
                                /\ result' = "error")
                    ELSE /\ gotos = <<>>
                         /\ testHistory' = Append(testHistory, Record(decision, FALSE))
                         /\ result' = "error"
               ELSE gotos = <<>>]_vars

\* four click strategies failed and the fallback navigation, issued fifth,
\* succeeded
FallbackNavigationAfterFourClicks ==
    /\ agentPc = "acted"
    /\ Len(pageOps) = 6
    /\ \A i \in 1..4 : pageOps[i].op = "click" /\ ~pageOps[i].ok
    /\ pageOps[5].op = "goto" /\ pageOps[5].ok
    /\ currentUrl = pageOps[5].arg

\* C25: in a fill_form decision with fill_data, a field none of whose four
\* selectors works does not fail the action: every field is still attempted
\* and the action is recorded with success = true, also when no field was
\* filled.
UnfilledFieldDoesNotFailAction ==
    [][(agentPc = "act" /\ decision.action = "fill_form" /\ decision.fill_data /= Null) =>
        /\ agentPc' = "acted"
        /\ \A k \in 1..Len(DataFields) :
            LET fills == SelectSeq(pageOps', LAMBDA o : o.op = "fill" /\ o.field = DataFields[k])
            IN  /\ fills /= <<>>
                /\ ((\A i \in 1..Len(fills) : ~fills[i].ok) => Len(fills) = 4)
        /\ Len(testHistory') > Len(testHistory)
        /\ testHistory'[Len(testHistory) + 1] = Record(decision, TRUE)]_vars

\* no fill succeeded for either field and the action was recorded as a success
NothingFilledRecordedAsSuccess ==
    /\ agentPc = "acted"
    /\ Len(OpsOf(pageOps, {"fill"})) = 8
    /\ \A o \in Range(pageOps) : o.op = "fill" => ~o.ok
    /\ testHistory = <<[action |-> "fill_form", success |-> TRUE]>>
    /\ result = "undefined"

\* C26: navigate adds a URL to visitedPages and sets currentUrl only after
\* page.goto for that URL succeeded; a failed navigation leaves both
\* unchanged, so visitedPages holds only URLs whose navigation succeeded.
NavigateUpdatesOnSuccessOnly ==
    /\ [][LET arrived == OpsOf(pageOps', {"goto"})
              succeeded == SelectSeq(arrived, LAMBDA o : o.ok)
          IN  /\ Len(arrived) <= 1
              /\ visitedPages' = visitedPages \cup {succeeded[i].arg : i \in 1..Len(succeeded)}
              /\ currentUrl' = IF succeeded /= <<>> THEN succeeded[1].arg ELSE currentUrl]_vars
    /\ [](visitedPages \subseteq AgentUrls)
    /\ [](currentUrl = "" \/ currentUrl \in visitedPages)

\* a navigation to a page not visited before failed and left the memory as
\* it was
FailedNavigationLeftMemory ==
    /\ agentPc = "acted"
    /\ \E o \in Range(pageOps) : o.op = "goto" /\ ~o.ok /\ o.arg = "a"
    /\ visitedPages = {"s"}
    /\ currentUrl = "s"

\* C27: executing an analyze decision, and getCleanedHTML in general, issues
\* no navigation, click or fill on the page and leaves visitedPages and
\* currentUrl unchanged; it only captures a snapshot.
SnapshotDoesNotMutatePage ==
    [][(agentPc = "snapshot" \/ (agentPc = "act" /\ decision.action = "analyze")) =>
        /\ pageOps' /= <<>>
        /\ \A o \in Range(pageOps') : o.op \notin {"goto", "click", "fill"}
        /\ (agentPc' \in {"think", "acted"} /\ result' /= "error" =>
                \E o \in Range(pageOps') : o.op = "content" /\ o.ok)
        /\ UNCHANGED <<visitedPages, currentUrl>>]_vars

\* an analyze decision was executed and returned a snapshot
AnalyzeReturnedSnapshot ==
    /\ agentPc = "acted"
    /\ result = "htmlData"
    /\ pageOps = SnapshotOps(TRUE)
    /\ steps = 2

\* C28: report building issues at most one more oracle request, for the
\* recommendations, and only when the history holds a failed ActionRecord;
\* when that request fails or its reply cannot be parsed, generateReport
\* still returns the report with its summary counts.
RecommendationsAreBestEffort ==
    /\ [](fatalAt /= "recommendations")
    /\ [](report.built =>
            /\ report.oracleRequests <= 1
            /\ (report.oracleRequests = 1 <=> \E i \in 1..Len(testHistory) : ~testHistory[i].success)
            /\ report.totalActions = Len(testHistory)
            /\ report.successfulActions + report.failedActions = report.totalActions
            /\ report.failedActions = Cardinality({i \in 1..Len(testHistory) : ~testHistory[i].success}))
    /\ [][(agentPc = "report" /\ fatalAt' /= "report") =>
            (agentPc' = "returned" /\ report'.built)]_vars

\* a run with a failed action returned its report although the
\* recommendations request got no usable reply
ReportBuiltWithoutRecommendations ==
    /\ agentPc = "returned"
    /\ report.built
    /\ report.oracleRequests = 1
    /\ report.recommendations = "default_reasoning"
    /\ report.failedActions = 1
    /\ report.totalActions = 2

----------------------------------------------------------------------------
(* Properties of the awaits of a session *)

\* the operations in flight
InFlight == {t \in tasks : t.flying}

\* C29: within one testWebsite session at most one browser or oracle
\* operation is in flight at any time, and the snapshot extraction of step
\* n+1 starts only after step n's action, its record append and the pause
\* between the steps have completed.
OneOperationInFlight ==
    /\ [](Cardinality(InFlight) <= 1 /\ Cardinality(tasks) <= 1)
    /\ [](\A t \in tasks : t.step = flightStep \/ t.site = "navigate")
    /\ [][(\E t \in tasks' : /\ t.site = "getCleanedHTML" /\ t.step > 1
                              /\ TaskId(t) \notin {TaskId(u) : u \in tasks}) =>
            /\ tasks = {}
            /\ flightDone.act
            /\ flightDone.append \in {"appended", "no_record"}
            /\ flightDone.pause]_vars

\* the snapshot extraction of step 2 is in flight after a step whose action
\* failed and was recorded
SecondSnapshotInFlight ==
    /\ flightStep = 2
    /\ flightFailed
    /\ \E t \in tasks : t.site = "getCleanedHTML" /\ t.step = 2 /\ t.flying
                        /\ Head(t.queue).op = "waitForLoadState"

----------------------------------------------------------------------------
(* Properties of the crawl's scope *)

\* C31: in every reachable state of a crawl, every URL in foundUrls or
\* visitedUrls has the hostname of the seed URL, because a link is admitted
\* only when its hostname equals that of the URL of the page it was found on.
CrawlStaysOnSeedHost ==
    /\ \A u \in Range(foundUrls) \cup visitedUrls \cup Range(links) :
            admitOrder /= <<>> /\ hostname(u) = hostname(admitOrder[1])
    /\ crawlPc = "links" => \A k \in 1..Len(links) : hostname(links[k]) = hostname(crawlUrl)

\* a second page was reached although a page analysed before exposed a link
\* to another hostname
ForeignLinkDroppedCrawlWentOn ==
    /\ foreignSeen
    /\ Cardinality(visitedUrls) = 2
    /\ Len(results) = 2
    /\ crawlPc = "returned"

----------------------------------------------------------------------------
(* Properties of browserAutomation *)

\* C32: when browserAutomation is called with keepBrowserOpen = false, the
\* browser it launched is closed before the call returns, on each return
\* path: a result with browserLeft = false never leaves a running browser.
NotLeftBrowserIsClosed ==
    \A i \in 1..Len(autoResults) :
        ~autoResults[i].browserLeft => browsers[autoResults[i].browser] = "closed"

\* C33: whenever browserAutomation returns a result with browserLeft = true,
\* the browser it launched has an entry in global._activeBrowsers, on the
\* success path, the navigation-failure path and the exception path.
LeftBrowserIsTracked ==
    \A i \in 1..Len(autoResults) :
        autoResults[i].browserLeft =>
            \E k \in 1..Len(activeBrowsers) :
                activeBrowsers[k].browser = autoResults[i].browser

----------------------------------------------------------------------------
(* Properties of the fatal path of testWebsite *)

\* C34: when testWebsite fails fatally, the exception that reaches the
\* caller is the original failure; an error raised while taking the
\* diagnostic screenshot in the catch block never replaces it.
OriginalFailureReachesCaller ==
    agentPc = "thrown" => (thrownError = fatalAt /\ thrownError /= "screenshot")

====
